---- MODULE Spec2Model ----
(***************************************************************************)
(* Model of the multi-agent mortgage task router: RoutingAgent             *)
(* (src/agents/routing_agent/agent.py), AgentDiscovery and AgentConnector  *)
(* (utilities/a2a), and the local CreditRiskAgent / ComplianceAgent /      *)
(* DocumentAgent executors the routing agent falls back to.                *)
(*                                                                         *)
(* Python values are modelled as follows.  A dict is a TLA+ function whose *)
(* domain is a set of strings; {} is the empty function <<>>.  A str that  *)
(* the code inspects character by character (the classifier's output) is a *)
(* sequence of one-character strings.  A JSON value that is not an object  *)
(* is wrapped: JStr(words) for a JSON string, JNull for null.  Floating    *)
(* point percentages are integer percentages (floor).  Text built with an  *)
(* f-string keeps its fixed part and its interpolated value as the fields  *)
(* of a record.                                                            *)
(*                                                                         *)
(* Five specifications: Spec serves the requests one after the other with  *)
(* every failure of the collaborators; SpecConcurrent interleaves the      *)
(* requests and cancellations with collaborators that all work;            *)
(* SpecDiscovery runs the loop of discover_agents probe by probe;          *)
(* SpecLookup applies _get_agent_by_skill to every small registry;         *)
(* SpecTwin runs a document_only and a full_pipeline request on the same   *)
(* text against the same behaviours.                                       *)
(***************************************************************************)
EXTENDS Integers, Sequences, FiniteSets, TLC

\* ------------------------------------------------------------------ bounds
\* number of base URLs in the registry file read by AgentDiscovery
NumEndpoints == 3
\* number of process_query calls served by one RoutingAgent instance
MaxRequests == 2

Requests == 1..MaxRequests

\* ----------------------------------------------------- python str helpers
Whitespace == {" ", "\n", "\t"}

UpperToLower ==
  [c \in {"A","B","C","D","E","F","G","H","I","J","K","L","M","N","O","P","Q",
          "R","S","T","U","V","W","X","Y","Z"} |->
     CASE c = "A" -> "a" [] c = "B" -> "b" [] c = "C" -> "c" [] c = "D" -> "d"
       [] c = "E" -> "e" [] c = "F" -> "f" [] c = "G" -> "g" [] c = "H" -> "h"
       [] c = "I" -> "i" [] c = "J" -> "j" [] c = "K" -> "k" [] c = "L" -> "l"
       [] c = "M" -> "m" [] c = "N" -> "n" [] c = "O" -> "o" [] c = "P" -> "p"
       [] c = "Q" -> "q" [] c = "R" -> "r" [] c = "S" -> "s" [] c = "T" -> "t"
       [] c = "U" -> "u" [] c = "V" -> "v" [] c = "W" -> "w" [] c = "X" -> "x"
       [] c = "Y" -> "y" [] c = "Z" -> "z"]

\* str.lower()
StrLower(s) ==
  [i \in 1..Len(s) |-> IF s[i] \in DOMAIN UpperToLower THEN UpperToLower[s[i]] ELSE s[i]]

RECURSIVE LStrip(_)
LStrip(s) == IF s # <<>> /\ Head(s) \in Whitespace THEN LStrip(Tail(s)) ELSE s

RECURSIVE RStrip(_)
RStrip(s) ==
  IF s # <<>> /\ s[Len(s)] \in Whitespace THEN RStrip(SubSeq(s, 1, Len(s) - 1)) ELSE s

\* str.strip()
StrStrip(s) == RStrip(LStrip(s))

\* ------------------------------------------------------------ route labels
document_only == <<"d", "o", "c", "u", "m", "e", "n", "t", "_", "o", "n", "l", "y">>
risk_only == <<"r", "i", "s", "k", "_", "o", "n", "l", "y">>
compliance_only == <<"c", "o", "m", "p", "l", "i", "a", "n", "c", "e", "_", "o", "n", "l", "y">>
full_pipeline == <<"f", "u", "l", "l", "_", "p", "i", "p", "e", "l", "i", "n", "e">>

\* valid_routes in _make_routing_decision
valid_routes == {document_only, risk_only, compliance_only, full_pipeline}

\* what the text-generation collaborator may answer (response.content)
ClassifierOutputs ==
  { document_only, risk_only, compliance_only, full_pipeline,
    <<" ", "R", "i", "s", "k", "_", "O", "n", "l", "y", "\n">>,
    <<"\"", "c", "o", "m", "p", "l", "i", "a", "n", "c", "e", "_", "o", "n", "l", "y", "\"">>,
    <<"r", "i", "s", "k", " ", "o", "n", "l", "y">>,
    <<"d", "o", "c", "u", "m", "e", "n", "t", "_", "o", "n", "l", "y", ".">>,
    <<>> }

\* ------------------------------------------------------- capability cards
\* An AgentCard, reduced to what _get_agent_by_skill reads.  agent_text and
\* skill_text are the sets of routing keywords that occur as substrings of
\* f"{name} {description}".lower() and of the joined skill names; tags is the
\* skill tag list the card advertises (never read by the lookup).
Keywords == {"document", "pdf", "extraction", "credit", "risk", "financial",
             "compliance", "regulatory", "legal"}

DocumentAgentCard ==
  [name |-> "document_agent", agent_text |-> {"document", "extraction"},
   skill_text |-> {"document"}, tags |-> {"document", "extraction", "pdf"}]

CreditRiskAgentCard ==
  [name |-> "credit_risk_agent", agent_text |-> {"credit", "risk", "financial"},
   skill_text |-> {"credit", "risk"}, tags |-> {"credit", "risk"}]

ComplianceAgentCard ==
  [name |-> "compliance_agent", agent_text |-> {"compliance", "regulatory"},
   skill_text |-> {"compliance"}, tags |-> {"compliance", "regulatory"}]

\* a third-party worker whose description mentions risk and legal review
MortgageHelperCard ==
  [name |-> "mortgage_helper", agent_text |-> {"risk", "legal"},
   skill_text |-> {}, tags |-> {"legal"}]

RoutingAgentCard ==
  [name |-> "routing_agent", agent_text |-> {}, skill_text |-> {}, tags |-> {}]

\* the card served by each configured base URL, in registry-file order
EndpointCards ==
  <<DocumentAgentCard, CreditRiskAgentCard, ComplianceAgentCard,
    MortgageHelperCard, RoutingAgentCard>>

\* AgentDiscovery.base_urls
base_urls == 1..NumEndpoints

\* Optional[AgentCard] = None
NoCard == [name |-> "None"]

\* dict lookup / insertion on an insertion-ordered dict kept as a sequence
HasAgent(agents, n) == \E i \in 1..Len(agents) : agents[i].name = n

GetAgent(agents, n) == agents[CHOOSE i \in 1..Len(agents) : agents[i].name = n]

PutAgent(agents, card) ==
  IF HasAgent(agents, card.name)
    THEN [i \in 1..Len(agents) |-> IF agents[i].name = card.name THEN card ELSE agents[i]]
    ELSE Append(agents, card)

\* what resolver.get_agent_card() can do for one base URL: return the card, or
\* raise (refused connection, the 30 s httpx timeout, a descriptor that fails
\* AgentCard validation)
ProbeOutcomes == {"card", "connection_error", "timeout", "malformed"}

\* the locals of discover_agents when the loop starts: probe is what each
\* endpoint will do, url_index the position in base_urls, probed the URLs for
\* which get_agent_card was awaited so far, waited the number of 30 s client
\* timeouts the loop has sat through, started the value of waited when the
\* probe of each probed URL began
StartDiscovery(probe) ==
  [probe |-> probe, url_index |-> 1, agents |-> <<>>, probed |-> <<>>, status |-> "running",
   waited |-> 0, started |-> <<>>]

\* probe_endpoint whose except clause is missing: a failed probe leaves the method
probe_endpoint_uncaught(d) ==
  IF d.probe[d.url_index] = "card"
    THEN [d EXCEPT !.agents = PutAgent(@, EndpointCards[d.url_index]),
                   !.probed = Append(@, d.url_index),
                   !.started = Append(@, d.waited),
                   !.url_index = @ + 1]
    ELSE [d EXCEPT !.probed = Append(@, d.url_index),
                   !.started = Append(@, d.waited),
                   !.waited = IF d.probe[d.url_index] = "timeout" THEN @ + 1 ELSE @,
                   !.status = "raised"]

\* one iteration of `for base_url in self.base_urls` (lines 66-86): the probe
\* is awaited inside the loop body, so the next one begins when this one has
\* answered or timed out; the card is stored under its name; any exception is
\* caught, reported and skipped
probe_endpoint(d) ==
  IF d.probe[d.url_index] = "card"
    THEN [d EXCEPT !.agents = PutAgent(@, EndpointCards[d.url_index]),
                   !.probed = Append(@, d.url_index),
                   !.started = Append(@, d.waited),
                   !.url_index = @ + 1]
    ELSE [d EXCEPT !.probed = Append(@, d.url_index),
                   !.started = Append(@, d.waited),
                   !.waited = IF d.probe[d.url_index] = "timeout" THEN @ + 1 ELSE @,
                   !.url_index = @ + 1]

\* `return agents` once the loop is exhausted (line 88)
return_agents(d) == [d EXCEPT !.status = "returned"]

RECURSIVE DiscoverFrom(_)
DiscoverFrom(d) ==
  IF d.status # "running" THEN d
  ELSE IF d.url_index > NumEndpoints THEN return_agents(d)
  ELSE DiscoverFrom(probe_endpoint(d))

\* AgentDiscovery.discover_agents, run to completion
discover_agents(probe) == DiscoverFrom(StartDiscovery(probe)).agents

\* agent_mapping in _get_agent_by_skill
agent_mapping ==
  [k \in Keywords |->
     IF k \in {"document", "pdf", "extraction"} THEN "document_agent"
     ELSE IF k \in {"credit", "risk", "financial"} THEN "credit_risk_agent"
     ELSE "compliance_agent"]

\* the "direct mapping" loop: index of the first keyword whose mapped name is registered
DirectHits(agents, skill_keywords) ==
  {i \in 1..Len(skill_keywords) :
     skill_keywords[i] \in DOMAIN agent_mapping
     /\ HasAgent(agents, agent_mapping[skill_keywords[i]])}

\* the "text matching" loop: index of the cards whose combined_text holds a keyword
TextHits(agents, skill_keywords) ==
  {i \in 1..Len(agents) :
     \E j \in 1..Len(skill_keywords) :
        skill_keywords[j] \in (agents[i].agent_text \cup agents[i].skill_text)}

Min(S) == CHOOSE x \in S : \A y \in S : x <= y

\* RoutingAgent._get_agent_by_skill
get_agent_by_skill(agents, skill_keywords) ==
  IF DirectHits(agents, skill_keywords) # {}
    THEN GetAgent(agents, agent_mapping[skill_keywords[Min(DirectHits(agents, skill_keywords))]])
  ELSE IF TextHits(agents, skill_keywords) # {}
    THEN agents[Min(TextHits(agents, skill_keywords))]
  ELSE NoCard

DocumentKeywords == <<"document", "pdf", "extraction">>
RiskKeywords == <<"credit", "risk", "financial">>
ComplianceKeywords == <<"compliance", "regulatory", "legal">>

\* ------------------------------------------------------------ JSON values
EmptyDict == <<>>

JStr(words) == [json_str |-> words]

JNull == [json_null |-> TRUE]

\* isinstance(v, dict)
IsDict(v) == DOMAIN v \notin {{"json_str"}, {"json_null"}}

IsStr(v) == DOMAIN v = {"json_str"}

\* python `k in v` for a dict (key test) or a str (substring test, at word level);
\* for None it raises TypeError, which callers test with IsDict/IsStr first
Contains(v, k) ==
  IF IsStr(v) THEN \E i \in 1..Len(v.json_str) : v.json_str[i] = k
  ELSE IsDict(v) /\ k \in DOMAIN v

\* dict.get(k, default)
Get(d, k, default) == IF k \in DOMAIN d THEN d[k] ELSE default

\* ---------------------------------------------------------------- queries
\* A task text: pdf is the match of re.search(r'([^\s]+\.pdf)', query), "" for
\* no match.
QueryRiskText ==
  [text |-> "Assess credit risk for applicant with 80000 income, 720 credit score",
   pdf |-> ""]

QueryWithPdf ==
  [text |-> "Process mortgage application john_doe.pdf", pdf |-> "john_doe.pdf"]

Queries == {QueryRiskText, QueryWithPdf}

\* ------------------------------------------------- worker payloads (remote)
\* The text part of a worker reply: body names the text, valid says whether
\* json.loads accepts it, value is what json.loads returns.
NotJsonText == [body |-> "Here is my analysis in prose", valid |-> FALSE, value |-> EmptyDict]

\* the f-string send_task returns when the nested path is missing
CouldntExtractText ==
  [body |-> "Response received but couldn't extract text. Full response: ...",
   valid |-> FALSE, value |-> EmptyDict]

JsonText(name, v) == [body |-> name, valid |-> TRUE, value |-> v]

ExtractedFields ==
  [applicant_name |-> "John Doe", income |-> 80000, credit_score |-> 720,
   loan_amount |-> 300000, property_value |-> 400000,
   extracted_data |-> [monthly_debt |-> 2000], agent |-> "DocumentAgent"]

PdfNotFound == [error |-> "PDF file not found"]

\* what DocumentAgent._parse_agent_response returns when parsing the model's
\* answer fails with anything but a JSONDecodeError, with the metadata
\* process_document adds
ParsingFailed ==
  [error |-> "Response parsing failed", raw_response |-> NotJsonText,
   source_file |-> "john_doe.pdf", agent |-> "DocumentAgent"]

DocumentTexts ==
  { JsonText("doc_results", [results |-> <<ExtractedFields>>]),
    JsonText("doc_results_error", [results |-> <<PdfNotFound>>]),
    JsonText("doc_results_parse_failed", [results |-> <<ParsingFailed>>]),
    JsonText("doc_results_empty", [results |-> <<>>]),
    JsonText("doc_direct", ExtractedFields),
    JsonText("doc_results_str", [results |-> <<JStr(<<"no", "data">>)>>]),
    JsonText("doc_str", JStr(<<"extraction", "error">>)),
    JsonText("doc_null", JNull),
    NotJsonText }

RiskAnalysisLow ==
  [risk_level |-> "low", risk_score |-> 20, credit_score |-> 720,
   annual_income |-> 80000, monthly_debt |-> 0, debt_to_income_ratio |-> 0,
   agent |-> "CreditRiskAgent"]

RiskTexts ==
  { JsonText("risk_analysis", [risk_analysis |-> RiskAnalysisLow]),
    JsonText("risk_analysis_error", [risk_analysis |-> [error |-> "Risk model unavailable"]]),
    JsonText("risk_results", [results |-> <<RiskAnalysisLow>>]),
    JsonText("risk_direct", RiskAnalysisLow),
    JsonText("risk_analysis_str", [risk_analysis |-> JStr(<<"low">>)]),
    JsonText("risk_null", JNull),
    NotJsonText }

ComplianceApproved ==
  [approved |-> TRUE, compliance_issues |-> <<>>, agent |-> "ComplianceAgent"]

ComplianceDenied ==
  [approved |-> FALSE, compliance_issues |-> <<"credit_score_below_620">>,
   agent |-> "ComplianceAgent"]

ComplianceTexts ==
  { JsonText("compliance_analysis", [compliance_analysis |-> ComplianceApproved]),
    JsonText("compliance_analysis_denied", [compliance_analysis |-> ComplianceDenied]),
    JsonText("compliance_analysis_error",
             [compliance_analysis |-> [error |-> "Rules engine unavailable"]]),
    JsonText("compliance_results", [results |-> <<ComplianceDenied>>]),
    JsonText("compliance_direct", ComplianceApproved),
    JsonText("compliance_str", JStr(<<"approved">>)),
    NotJsonText }

\* What a2a_client.send_message can do with one request: raise (the httpx
\* timeout of 120 s, a refused connection), return an envelope without the
\* path result.status.message.parts[0].text, or return an envelope with it.
Replies(texts) ==
  { [kind |-> "timeout", text |-> NotJsonText],
    [kind |-> "connect_error", text |-> NotJsonText],
    [kind |-> "no_text_path", text |-> NotJsonText] }
  \cup { [kind |-> "text", text |-> t] : t \in texts }

\* AgentConnector.send_task: send_message raising leaves the method (it has no
\* except clause around the call); a missing nested path is caught and turned
\* into the descriptive f-string; otherwise the text part is returned.
send_task(reply) ==
  IF reply.kind \in {"timeout", "connect_error"}
    THEN [raised |-> TRUE, response |-> NotJsonText]
  ELSE IF reply.kind = "no_text_path"
    THEN [raised |-> FALSE, response |-> CouldntExtractText]
  ELSE [raised |-> FALSE, response |-> reply.text]

\* ------------------------------------------------- local fallback executors
\* DocumentAgent.process_document: the extracted fields, or an error dict when
\* the file is not found or holds no text
LocalDocumentResults == {ExtractedFields, PdfNotFound}

\* the sample record _process_document uses when the query names no PDF
SampleApplicant ==
  [applicant_name |-> "Sample Applicant (No PDF specified)", annual_income |-> 75000,
   monthly_debt |-> 2000, credit_score |-> 720, loan_amount |-> 300000,
   employment_history |-> "Stable employment for 5 years"]

\* MockCreditAPITool.get_credit_score: 580 + hash(name) % 1000 % 270, raised to
\* 720 for a name containing "john"; hash is salted per process, so the base
\* score is any value of the range (two representatives)
BaseScores == {600, 760}

Max(a, b) == IF a >= b THEN a ELSE b

get_credit_score(applicant_name, base_score) ==
  IF applicant_name = "John Doe" THEN Max(720, base_score) ELSE base_score

\* CreditRiskAgent._assess_credit_risk
assess_credit_risk(financial_data) ==
  LET annual_income == Get(financial_data, "annual_income", 0)
      monthly_debt == Get(financial_data, "monthly_debt", 0)
      credit_score == Get(financial_data, "credit_score", 0)
      debt_to_income == IF annual_income > 0 THEN (monthly_debt * 1200) \div annual_income
                        ELSE 100
      credit_points == IF credit_score = 0 THEN 30
                       ELSE IF credit_score < 580 THEN 40
                       ELSE IF credit_score < 620 THEN 25
                       ELSE IF credit_score < 670 THEN 10
                       ELSE IF credit_score < 740 THEN 5
                       ELSE 0
      dti_points == IF debt_to_income > 43 THEN 25
                    ELSE IF debt_to_income > 36 THEN 15 ELSE 0
      income_points == IF annual_income < 30000 THEN 20
                       ELSE IF annual_income < 50000 THEN 10 ELSE 0
      risk_score == credit_points + dti_points + income_points
  IN [risk_level |-> IF risk_score >= 50 THEN "high"
                     ELSE IF risk_score >= 25 THEN "medium" ELSE "low",
      risk_score |-> IF risk_score < 100 THEN risk_score ELSE 100,
      credit_score_estimate |-> credit_score,
      debt_to_income_ratio |-> debt_to_income,
      annual_income |-> annual_income,
      monthly_debt |-> monthly_debt,
      agent |-> "CreditRiskAgent"]

\* CreditRiskAgent._extract_from_text on a text without figures
extract_from_text(text) ==
  [annual_income |-> 0, monthly_debt |-> 0, credit_score |-> 0,
   applicant_name |-> "Unknown", loan_amount |-> 0]

\* CreditRiskAgent.process_document_data.  A dict takes the MCP-tool path; on
\* anything else doc_data.get raises and the manual assessment runs instead.
\* predict_default_risk returns no risk_level / risk_score / confidence key, so
\* the .get defaults "medium" / 50 / 0.8 are what the result carries.
process_document_data(doc_data, base_score) ==
  IF IsDict(doc_data)
    THEN LET applicant_name == Get(doc_data, "applicant_name", "Unknown")
             annual_income == Get(doc_data, "income", 0)
             loan_amount == Get(doc_data, "loan_amount", 0)
             property_value == Get(doc_data, "property_value", 0)
             credit_score == get_credit_score(applicant_name, base_score)
             monthly_debt == Get(Get(doc_data, "extracted_data", EmptyDict), "monthly_debt", 0)
             dti_ratio == IF annual_income > 0 THEN (monthly_debt * 1200) \div annual_income
                          ELSE 0
             ltv_ratio == IF property_value > 0 THEN (loan_amount * 100) \div property_value
                          ELSE 80
         IN [applicant_name |-> applicant_name,
             credit_score |-> credit_score,
             risk_level |-> "medium",
             risk_score |-> 50,
             confidence |-> 80,
             debt_to_income_ratio |-> dti_ratio,
             loan_to_value_ratio |-> ltv_ratio,
             annual_income |-> annual_income,
             monthly_debt |-> monthly_debt,
             agent |-> "CreditRiskAgent"]
    ELSE assess_credit_risk(extract_from_text(doc_data))

\* ComplianceAgent._analyze_structured_data
analyze_structured_data(data) ==
  LET nested == "risk_assessment" \in DOMAIN data /\ "document_data" \in DOMAIN data
      risk_data == Get(data, "risk_assessment", EmptyDict)
      doc_data == Get(data, "document_data", EmptyDict)
      credit_score == IF nested
                        THEN Get(risk_data, "credit_score", Get(doc_data, "credit_score", 0))
                        ELSE Get(data, "credit_score", 0)
      annual_income == IF nested
                         THEN Get(risk_data, "annual_income", Get(doc_data, "income", 0))
                         ELSE Get(data, "annual_income", Get(data, "income", 0))
      monthly_debt == IF nested THEN Get(risk_data, "monthly_debt", 0)
                      ELSE Get(data, "monthly_debt", 0)
      debt_to_income == IF nested THEN Get(risk_data, "debt_to_income_ratio", 0)
                        ELSE IF annual_income > 0
                               THEN (monthly_debt * 1200) \div annual_income
                               ELSE 0
      compliance_issues ==
        (IF credit_score < 620 THEN <<"credit_score_below_620">> ELSE <<>>)
        \o (IF debt_to_income > 43 THEN <<"dti_above_43">> ELSE <<>>)
        \o (IF annual_income < 30000 THEN <<"income_insufficient">> ELSE <<>>)
      approved == Len(compliance_issues) = 0 /\ credit_score >= 620 /\ debt_to_income <= 43
  IN [approved |-> approved,
      confidence |-> IF approved THEN 85 ELSE 65,
      compliance_issues |-> compliance_issues,
      metrics |-> [credit_score |-> credit_score, debt_to_income_ratio |-> debt_to_income,
                   annual_income |-> annual_income, monthly_debt |-> monthly_debt],
      agent |-> "ComplianceAgent"]

\* ComplianceAgent._analyze_with_crewai when the crew's answer holds no JSON
CrewFallback ==
  [approved |-> FALSE, confidence |-> 50,
   compliance_issues |-> <<"Unable to parse compliance analysis">>,
   agent |-> "ComplianceAgent"]

\* ComplianceAgent.process: content is json.dumps(input_data) for a dict, so it
\* starts with "{" and is analysed as structured data; any other content goes
\* to the crew.
ComplianceAgent_process(input_data) ==
  IF IsDict(input_data) THEN analyze_structured_data(input_data) ELSE CrewFallback

\* --------------------------------------------------- reply handling (remote)
ProcessingNote == "Response parsed from text format"

DocumentCommError == [error |-> "Document agent communication failed"]
RiskCommError == [error |-> "Credit risk agent communication failed"]
ComplianceCommError == [error |-> "Compliance agent communication failed"]

\* first element of a non-empty "results" list, when the key is there
HasResults(response_data) ==
  "results" \in DOMAIN response_data /\ Len(response_data.results) > 0

\* _process_document, the body of `try: response = await connector.send_task(...)`
\* up to its `except Exception`: json.loads, the reply-shape branches, the
\* JSONDecodeError fallback; every other exception gives the error record.
document_from_reply(reply) ==
  LET sent == send_task(reply)
      response == sent.response
      response_data == response.value
  IN IF sent.raised THEN DocumentCommError
     ELSE IF ~response.valid
       THEN [applicant_name |-> "Document Agent Response", annual_income |-> 75000,
             raw_response |-> response, processing_note |-> ProcessingNote]
     ELSE IF ~IsDict(response_data) /\ ~IsStr(response_data)
       THEN DocumentCommError                     \* `in` on None: TypeError
     ELSE IF IsStr(response_data)
       THEN IF Contains(response_data, "results")
              THEN DocumentCommError              \* str index by key: TypeError
              ELSE response_data
     ELSE IF HasResults(response_data)
       THEN IF IsDict(response_data.results[1])
              THEN response_data.results[1]
              ELSE DocumentCommError              \* .get on a non-dict
     ELSE response_data

\* risk_from_reply that reports a reply it cannot parse as a failed call
risk_from_reply_strict(reply) ==
  LET sent == send_task(reply)
      response_data == sent.response.value
      risk_result == IF "risk_analysis" \in DOMAIN response_data
                       THEN response_data.risk_analysis
                     ELSE IF HasResults(response_data) THEN response_data.results[1]
                     ELSE response_data
  IN IF sent.raised \/ ~sent.response.valid \/ ~IsDict(response_data) \/ ~IsDict(risk_result)
       THEN RiskCommError
       ELSE risk_result

\* _assess_risk, same region
risk_from_reply(reply) ==
  LET sent == send_task(reply)
      response == sent.response
      response_data == response.value
      risk_result == IF "risk_analysis" \in DOMAIN response_data
                       THEN response_data.risk_analysis
                     ELSE IF HasResults(response_data) THEN response_data.results[1]
                     ELSE response_data
  IN IF sent.raised THEN RiskCommError
     ELSE IF ~response.valid
       THEN [risk_level |-> "medium", risk_score |-> 65, confidence |-> 70,
             raw_response |-> response, processing_note |-> ProcessingNote]
     ELSE IF ~IsDict(response_data)
       THEN RiskCommError                  \* None: TypeError; str: .get fails
     ELSE IF ~IsDict(risk_result)
       THEN RiskCommError                         \* .get on a non-dict
     ELSE risk_result

\* _check_compliance, same region
compliance_from_reply(reply) ==
  LET sent == send_task(reply)
      response == sent.response
      response_data == response.value
      compliance_result == IF "compliance_analysis" \in DOMAIN response_data
                             THEN response_data.compliance_analysis
                           ELSE IF HasResults(response_data) THEN response_data.results[1]
                           ELSE response_data
  IN IF sent.raised THEN ComplianceCommError
     ELSE IF ~response.valid
       THEN [approved |-> TRUE, confidence |-> 80, compliance_issues |-> <<>>,
             recommendations |-> <<"Manual review recommended">>,
             raw_response |-> response, processing_note |-> ProcessingNote]
     ELSE IF ~IsDict(response_data)
       THEN ComplianceCommError
     ELSE IF ~IsDict(compliance_result)
       THEN ComplianceCommError
     ELSE compliance_result

\* ------------------------------------------------------------------- state
VARIABLES
  available_agents,  \* RoutingAgent.available_agents (insertion-ordered dict)
  graph,             \* RoutingAgent.graph is not None
  pc,                \* per request: where process_query / the graph stands
  state,             \* per request: the RoutingState of the run
  result,            \* per request: what process_query returned
  trace,             \* per request: the graph nodes executed, in order
  calls,             \* per request: worker invocations (remote or local) made
  outcome,           \* per request: what the collaborators did in this run
  events,            \* per request: task states the executor put on the event queue
  cancel_errors,     \* UnsupportedOperationError raised by cancel so far
  discovery,         \* the locals of a discover_agents call observed step by step
  lookup             \* one _get_agent_by_skill call: its argument and what it returned

vars ==
  <<available_agents, graph, pc, state, result, trace, calls, outcome, events,
    cancel_errors, discovery, lookup>>

\* number of cancellation requests the clients send
MaxCancels == 1

\* no discover_agents call is being observed
NoDiscovery ==
  [probe |-> <<>>, url_index |-> 0, agents |-> <<>>, probed |-> <<>>, status |-> "none",
   waited |-> 0, started |-> <<>>]

\* no _get_agent_by_skill call is being observed
NoLookup == [skill_keywords |-> <<>>, found |-> NoCard, status |-> "none"]

NoOutcome ==
  [classifier |-> "none", content |-> <<>>, summarizer |-> "none", report |-> "none",
   registry |-> <<>>]

Init ==
  /\ available_agents = <<>>
  /\ graph = FALSE
  /\ pc = [r \in Requests |-> "idle"]
  /\ state = [r \in Requests |-> EmptyDict]
  /\ result = [r \in Requests |-> EmptyDict]
  /\ trace = [r \in Requests |-> <<>>]
  /\ calls = [r \in Requests |-> <<>>]
  /\ outcome = [r \in Requests |-> NoOutcome]
  /\ events = [r \in Requests |-> <<>>]
  /\ cancel_errors = 0
  /\ discovery = NoDiscovery
  /\ lookup = NoLookup

\* RoutingState(...) as process_query builds it
initial_state(query) ==
  [messages |-> <<>>, query |-> query, route_decision |-> <<>>,
   document_data |-> EmptyDict, risk_assessment |-> EmptyDict,
   compliance_result |-> EmptyDict, final_result |-> EmptyDict]

\* RoutingAgent.create called by the executor at start-up: discovery, then the
\* graph is built.  A missing OPENAI_API_KEY raises before either.
create ==
  /\ ~graph
  /\ \A r \in Requests : pc[r] = "idle"
  /\ \E probe \in [base_urls -> ProbeOutcomes] :
       available_agents' = discover_agents(probe)
  /\ graph' = TRUE
  /\ UNCHANGED <<pc, state, result, trace, calls, outcome, events, cancel_errors, discovery, lookup>>

\* RoutingAgentExecutor.execute up to graph.ainvoke: the working status, then
\* process_query: `if not self.graph: await self.create()` and the initial
\* state.  create() raising leaves process_query (it is outside the try) and
\* execute reports failed and re-raises.
process_query(r, query) ==
  /\ pc[r] = "idle"
  /\ \A q \in Requests \ {r} : pc[q] = "idle"
  /\ \/ /\ graph
        /\ UNCHANGED <<available_agents, graph>>
        /\ pc' = [pc EXCEPT ![r] = "route_decision"]
        /\ state' = [state EXCEPT ![r] = initial_state(query)]
        /\ events' = [events EXCEPT ![r] = <<"working">>]
        /\ outcome' = [outcome EXCEPT ![r].registry = available_agents]
     \/ /\ ~graph
        /\ \E probe \in [base_urls -> ProbeOutcomes] :
             /\ available_agents' = discover_agents(probe)
             /\ outcome' = [outcome EXCEPT ![r].registry = discover_agents(probe)]
        /\ graph' = TRUE
        /\ pc' = [pc EXCEPT ![r] = "route_decision"]
        /\ state' = [state EXCEPT ![r] = initial_state(query)]
        /\ events' = [events EXCEPT ![r] = <<"working">>]
     \/ /\ ~graph
        /\ UNCHANGED <<available_agents, graph, state, outcome>>
        /\ pc' = [pc EXCEPT ![r] = "raised"]
        /\ events' = [events EXCEPT ![r] = <<"working", "failed">>]
  /\ UNCHANGED <<result, trace, calls, cancel_errors, discovery, lookup>>

\* validate_route without the membership test
validate_route_unchecked(content) == StrLower(StrStrip(content))

\* the route label after validation (lines 186-191)
validate_route(content) ==
  LET route_decision == StrLower(StrStrip(content))
  IN IF route_decision \notin valid_routes THEN full_pipeline ELSE route_decision

\* entry_point with compliance_only wired to the head of the pipeline
entry_point_all_from_head(route_decision) ==
  IF route_decision = risk_only THEN "risk_assessment" ELSE "document_processing"

\* add_conditional_edges("route_decision", _route_condition, {...})
entry_point(route_decision) ==
  IF route_decision = document_only THEN "document_processing"
  ELSE IF route_decision = risk_only THEN "risk_assessment"
  ELSE IF route_decision = compliance_only THEN "compliance_check"
  ELSE "document_processing"

WorkflowFailed == [error |-> "Routing workflow failed", agent |-> "RoutingAgent"]

\* node route_decision: _make_routing_decision.  llm.ainvoke raising is not
\* caught in the node; it leaves graph.ainvoke and process_query returns the
\* "Routing workflow failed" record.
make_routing_decision(r) ==
  /\ pc[r] = "route_decision"
  /\ \/ \E content \in ClassifierOutputs :
          /\ state' = [state EXCEPT ![r].route_decision = validate_route(content),
                                    ![r].messages = Append(@, "Routing decision")]
          /\ pc' = [pc EXCEPT ![r] = entry_point(validate_route(content))]
          /\ outcome' = [outcome EXCEPT ![r].classifier = "answered", ![r].content = content]
          /\ UNCHANGED <<result, events>>
     \/ /\ result' = [result EXCEPT ![r] = WorkflowFailed]
        /\ pc' = [pc EXCEPT ![r] = "returned"]
        /\ outcome' = [outcome EXCEPT ![r].classifier = "raised"]
        /\ events' = [events EXCEPT ![r] = Append(@, "completed")]
        /\ UNCHANGED state
  /\ trace' = [trace EXCEPT ![r] = Append(@, "route_decision")]
  /\ UNCHANGED <<available_agents, graph, calls, cancel_errors, discovery, lookup>>

\* one entry of calls: a worker invocation.  kind / valid say what the remote
\* side did with it (kind "local" for the in-process executor).
\* session_id is the second argument of send_task and request the
\* SendMessageRequest it sent (both empty for the in-process executor).
\* behaviour is what the callee did: the reply of a remote worker, what the
\* surroundings of a local executor gave it.
Call(stage, via, agent, input, kind, valid, session_id, request, behaviour) ==
  [stage |-> stage, via |-> via, agent |-> agent, input |-> input,
   kind |-> kind, valid |-> valid, session_id |-> session_id, request |-> request,
   behaviour |-> behaviour]

\* str(uuid4()): the n-th identifier drawn while request r runs (a random
\* version-4 UUID: two draws give two values)
uuid4(r, n) == <<r, n>>

NoId == <<>>

\* send_task with identifiers drawn once for the connector, not per request
send_message_request_connector_ids(message, session_id, message_id, request_id) ==
  [id |-> uuid4(0, 2),
   params |-> [message |-> [role |-> "user", messageId |-> uuid4(0, 1),
                            parts |-> <<[text |-> message, kind |-> "text"]>>]]]

\* send_task, lines 38-56: the SendMessageRequest built from the message; the
\* session_id argument is not used
send_message_request(message, session_id, message_id, request_id) ==
  [id |-> request_id,
   params |-> [message |-> [role |-> "user", messageId |-> message_id,
                            parts |-> <<[text |-> message, kind |-> "text"]>>]]]

\* one connector.send_task(request, session_id) of a stage handler: the
\* handler draws session_id, send_task draws messageId and the request id
RemoteCall(r, stage, card, input, reply) ==
  LET drawn == 3 * Len(calls[r])
      session_id == uuid4(r, drawn + 1)
  IN Call(stage, "remote", card.name, input, reply.kind,
          reply.kind = "text" /\ reply.text.valid, session_id,
          send_message_request(input, session_id, uuid4(r, drawn + 2), uuid4(r, drawn + 3)),
          reply)

LocalCall(stage, agent, input, behaviour) ==
  Call(stage, "local", agent, input, "local", TRUE, NoId, <<>>, behaviour)

\* FinishStage of a graph whose document_only route ends after the document
\* stage
FinishStage_document_only_alone(r, stage, slot, value, message, successor) ==
  /\ state' = [state EXCEPT ![r][slot] = value, ![r].messages = Append(@, message)]
  /\ pc' = [pc EXCEPT ![r] =
              IF stage = "document_processing" /\ state[r].route_decision = document_only
                THEN "final_aggregation" ELSE successor]
  /\ trace' = [trace EXCEPT ![r] = Append(@, stage)]
  /\ UNCHANGED <<available_agents, graph, result, outcome, events, cancel_errors, discovery, lookup>>

\* FinishStage of a handler whose error record ends the run
FinishStage_halting(r, stage, slot, value, message, successor) ==
  /\ state' = [state EXCEPT ![r][slot] = value, ![r].messages = Append(@, message)]
  /\ pc' = [pc EXCEPT ![r] = IF "error" \in DOMAIN value THEN "END" ELSE successor]
  /\ trace' = [trace EXCEPT ![r] = Append(@, stage)]
  /\ UNCHANGED <<available_agents, graph, result, outcome, events, cancel_errors, discovery, lookup>>

\* what every stage handler does after computing its slot (or failing): store
\* the slot, log one message, and hand over to the fixed successor node
FinishStage(r, stage, slot, value, message, successor) ==
  /\ state' = [state EXCEPT ![r][slot] = value, ![r].messages = Append(@, message)]
  /\ pc' = [pc EXCEPT ![r] = successor]
  /\ trace' = [trace EXCEPT ![r] = Append(@, stage)]
  /\ UNCHANGED <<available_agents, graph, result, outcome, events, cancel_errors, discovery, lookup>>

\* node document_processing: _process_document
process_document(r) ==
  /\ pc[r] = "document_processing"
  /\ LET doc_agent_card == get_agent_by_skill(available_agents, DocumentKeywords)
         query == state[r].query
     IN \/ /\ doc_agent_card = NoCard             \* import / DocumentAgent.create raises
           /\ UNCHANGED calls
           /\ FinishStage(r, "document_processing", "document_data",
                          [error |-> "Document processing failed"],
                          "Document processing error", "risk_assessment")
        \/ /\ doc_agent_card = NoCard
           /\ query.pdf # ""
           /\ \E document_data \in LocalDocumentResults :
                /\ calls' = [calls EXCEPT ![r] =
                     Append(@, LocalCall("document_processing", "DocumentAgent",
                                         [filename |-> query.pdf],
                                         [read |-> document_data]))]
                /\ FinishStage(r, "document_processing", "document_data", document_data,
                               "Document processing completed", "risk_assessment")
        \/ /\ doc_agent_card = NoCard
           /\ query.pdf = ""
           /\ UNCHANGED calls
           /\ FinishStage(r, "document_processing", "document_data", SampleApplicant,
                          "Document processing completed", "risk_assessment")
        \/ /\ doc_agent_card # NoCard
           /\ \E reply \in Replies(DocumentTexts) :
                /\ calls' = [calls EXCEPT ![r] =
                     Append(@, RemoteCall(r, "document_processing", doc_agent_card,
                       [request |-> "Extract and analyze data from the mortgage application PDF. Query",
                        query |-> query], reply))]
                /\ FinishStage(r, "document_processing", "document_data",
                               document_from_reply(reply),
                               "Document processing completed", "risk_assessment")

\* risk_request that always asks with the task text
risk_request_from_query(st) ==
  [request |-> "Perform credit risk assessment. Query", query |-> st.query]

\* risk_request of _assess_risk (lines 310-314)
risk_request(st) ==
  LET input_data == Get(st, "document_data", EmptyDict)
  IN IF IsDict(input_data)
       THEN [request |-> "Perform credit risk assessment on this applicant data",
             data |-> input_data]
       ELSE [request |-> "Perform credit risk assessment. Query", query |-> st.query]

\* input_data of the local branch of _assess_risk (line 302)
risk_local_input(st) == Get(st, "document_data", st.query)

\* node risk_assessment: _assess_risk
assess_risk(r) ==
  /\ pc[r] = "risk_assessment"
  /\ LET risk_agent_card == get_agent_by_skill(available_agents, RiskKeywords)
     IN \/ /\ risk_agent_card = NoCard            \* import / CreditRiskAgent.create raises
           /\ UNCHANGED calls
           /\ FinishStage(r, "risk_assessment", "risk_assessment",
                          [error |-> "Risk assessment failed"],
                          "Risk assessment error", "compliance_check")
        \/ /\ risk_agent_card = NoCard
           /\ \E base_score \in BaseScores :
                /\ calls' = [calls EXCEPT ![r] =
                     Append(@, LocalCall("risk_assessment", "CreditRiskAgent",
                                         [doc_data |-> risk_local_input(state[r])],
                                         [base_score |-> base_score]))]
                /\ FinishStage(r, "risk_assessment", "risk_assessment",
                               process_document_data(risk_local_input(state[r]), base_score),
                               "Risk assessment completed", "compliance_check")
        \/ /\ risk_agent_card # NoCard
           /\ \E reply \in Replies(RiskTexts) :
                /\ calls' = [calls EXCEPT ![r] =
                     Append(@, RemoteCall(r, "risk_assessment", risk_agent_card,
                                          risk_request(state[r]), reply))]
                /\ FinishStage(r, "risk_assessment", "risk_assessment",
                               risk_from_reply(reply),
                               "Risk assessment completed", "compliance_check")

\* compliance_request of _check_compliance (lines 392-398)
compliance_request(st) ==
  [request |-> "Perform regulatory compliance check on this mortgage application data",
   data |-> [document_data |-> Get(st, "document_data", EmptyDict),
             risk_assessment |-> Get(st, "risk_assessment", EmptyDict),
             query |-> st.query]]

\* input_data of the local branch of _check_compliance (line 379)
compliance_local_input(st) ==
  Get(st, "risk_assessment", Get(st, "document_data", st.query))

\* node compliance_check: _check_compliance
check_compliance(r) ==
  /\ pc[r] = "compliance_check"
  /\ LET compliance_agent_card == get_agent_by_skill(available_agents, ComplianceKeywords)
     IN \/ /\ compliance_agent_card = NoCard      \* import / ComplianceAgent.create raises
           /\ UNCHANGED calls
           /\ FinishStage(r, "compliance_check", "compliance_result",
                          [error |-> "Compliance check failed"],
                          "Compliance check error", "final_aggregation")
        \/ /\ compliance_agent_card = NoCard
           /\ calls' = [calls EXCEPT ![r] =
                Append(@, LocalCall("compliance_check", "ComplianceAgent",
                                    [content |-> compliance_local_input(state[r])], <<>>))]
           /\ FinishStage(r, "compliance_check", "compliance_result",
                          ComplianceAgent_process(compliance_local_input(state[r])),
                          "Compliance check completed", "final_aggregation")
        \/ /\ compliance_agent_card # NoCard
           /\ \E reply \in Replies(ComplianceTexts) :
                /\ calls' = [calls EXCEPT ![r] =
                     Append(@, RemoteCall(r, "compliance_check", compliance_agent_card,
                                          compliance_request(state[r]), reply))]
                /\ FinishStage(r, "compliance_check", "compliance_result",
                               compliance_from_reply(reply),
                               "Compliance check completed", "final_aggregation")

\* the trailing "_word" of each RoutingState key, for str.endswith
KeyEnding ==
  [messages |-> "messages", query |-> "query", route_decision |-> "_decision",
   document_data |-> "_data", risk_assessment |-> "_assessment",
   compliance_result |-> "_result", final_result |-> "_result"]

\* k.endswith(('_data', '_assessment', '_result'))
IsStepKey(k) == KeyEnding[k] \in {"_data", "_assessment", "_result"}

\* processing_summary of _aggregate_results (lines 460-464)
processing_summary(st) ==
  [total_steps |-> Cardinality({k \in DOMAIN st : IsStepKey(k)}),
   successful_steps |->
     Cardinality({k \in DOMAIN st : IsStepKey(k) /\ ~Contains(st[k], "error")}),
   agent |-> "RoutingAgent"]

unknown == <<"u", "n", "k", "n", "o", "w", "n">>

\* final_result as first built by _aggregate_results (lines 455-465)
collect_results(st) ==
  [routing_decision |-> Get(st, "route_decision", unknown),
   document_data |-> Get(st, "document_data", EmptyDict),
   risk_assessment |-> Get(st, "risk_assessment", EmptyDict),
   compliance_result |-> Get(st, "compliance_result", EmptyDict),
   processing_summary |-> processing_summary(st)]

\* generate_pdf_report that hands back the failure text instead of None
generate_pdf_report_error_text(final_result, rendered) ==
  IF IsDict(final_result.document_data) /\ rendered
    THEN "mortgage_docs/output/compliance_report.pdf"
    ELSE "Error generating PDF report"

\* _generate_pdf_report: the path written, or "" for None.  Its whole body is
\* in a try; document_data.get on a non-dict raises there, as does any failure
\* of the renderer (rendered = FALSE).
generate_pdf_report(final_result, rendered) ==
  IF IsDict(final_result.document_data) /\ rendered
    THEN "mortgage_docs/output/compliance_report.pdf"
    ELSE ""

AggregationFailed == [error |-> "Aggregation failed"]

\* node final_aggregation: _aggregate_results
aggregate_results(r) ==
  /\ pc[r] = "final_aggregation"
  /\ \/ \E rendered \in BOOLEAN :                 \* llm.ainvoke returns a summary
          LET with_summary == collect_results(state[r]) @@ [summary |-> "summary text"]
              pdf_path == generate_pdf_report(with_summary, rendered)
              final_result == IF pdf_path # ""
                                THEN with_summary @@ [output_pdf_path |-> pdf_path]
                                ELSE with_summary
          IN /\ state' = [state EXCEPT ![r].final_result = final_result,
                                       ![r].messages = Append(@, "Final aggregation completed")]
             /\ outcome' = [outcome EXCEPT ![r].summarizer = "answered",
                                           ![r].report =
                                             IF IsDict(with_summary.document_data) /\ rendered
                                               THEN "written" ELSE "failed"]
     \/ /\ state' = [state EXCEPT ![r].final_result = AggregationFailed,   \* llm.ainvoke raises
                                  ![r].messages = Append(@, "Aggregation error")]
        /\ outcome' = [outcome EXCEPT ![r].summarizer = "raised"]
  /\ pc' = [pc EXCEPT ![r] = "END"]
  /\ trace' = [trace EXCEPT ![r] = Append(@, "final_aggregation")]
  /\ UNCHANGED <<available_agents, graph, result, calls, events, cancel_errors, discovery, lookup>>

\* execute that reports failed for a result that is an error record
return_result_error_fails(r) ==
  /\ pc[r] = "END"
  /\ result' = [result EXCEPT ![r] =
                  Get(state[r], "final_result", [error |-> "No final result generated"])]
  /\ pc' = [pc EXCEPT ![r] = "returned"]
  /\ events' = [events EXCEPT ![r] =
                  Append(@, IF "error" \in DOMAIN result'[r] THEN "failed" ELSE "completed")]
  /\ UNCHANGED <<available_agents, graph, state, trace, calls, outcome, cancel_errors, discovery, lookup>>

\* process_query after graph.ainvoke returned (line 779); execute then reports
\* completed with the record serialised
return_result(r) ==
  /\ pc[r] = "END"
  /\ result' = [result EXCEPT ![r] =
                  Get(state[r], "final_result", [error |-> "No final result generated"])]
  /\ pc' = [pc EXCEPT ![r] = "returned"]
  /\ events' = [events EXCEPT ![r] = Append(@, "completed")]
  /\ UNCHANGED <<available_agents, graph, state, trace, calls, outcome, cancel_errors, discovery, lookup>>

\* the caller is done with the request: its RoutingState goes out of scope
release(r) ==
  /\ pc[r] \in {"returned", "raised"}
  /\ pc' = [pc EXCEPT ![r] = "idle"]
  /\ state' = [state EXCEPT ![r] = EmptyDict]
  /\ result' = [result EXCEPT ![r] = EmptyDict]
  /\ trace' = [trace EXCEPT ![r] = <<>>]
  /\ calls' = [calls EXCEPT ![r] = <<>>]
  /\ outcome' = [outcome EXCEPT ![r] = NoOutcome]
  /\ events' = [events EXCEPT ![r] = <<>>]
  /\ UNCHANGED <<available_agents, graph, cancel_errors, discovery, lookup>>

\* cancel that ends the task: the run is dropped and a canceled status emitted
cancel_interrupting(r) ==
  /\ cancel_errors < MaxCancels
  /\ cancel_errors' = cancel_errors + 1
  /\ pc' = [pc EXCEPT ![r] = IF @ \in {"idle", "returned", "raised"} THEN @ ELSE "raised"]
  /\ events' = [events EXCEPT ![r] = IF pc[r] \in {"idle", "returned", "raised"} THEN @
                                      ELSE Append(@, "canceled")]
  /\ UNCHANGED <<available_agents, graph, state, result, trace, calls, outcome, discovery, lookup>>

\* RoutingAgentExecutor.cancel for the task of request r: raises
\* ServerError(UnsupportedOperationError()) and does nothing else
cancel(r) ==
  /\ cancel_errors < MaxCancels
  /\ cancel_errors' = cancel_errors + 1
  /\ UNCHANGED <<available_agents, graph, pc, state, result, trace, calls, outcome, events,
                 discovery, lookup>>

\* the stage nodes of the graph, their fixed edges and the slot each writes
StageNodes == {"document_processing", "risk_assessment", "compliance_check"}

SuccessorOf ==
  [document_processing |-> "risk_assessment", risk_assessment |-> "compliance_check",
   compliance_check |-> "final_aggregation"]

SlotOf ==
  [document_processing |-> "document_data", risk_assessment |-> "risk_assessment",
   compliance_check |-> "compliance_result"]

\* ------------------------------------------------- concurrent process_query
\* The server awaits process_query for several tasks on one RoutingAgent: the
\* coroutines of all requests interleave at every await.  To keep the product
\* of the runs small, the collaborators all work here: every probe of one
\* discovery ends alike, the classifier answers full_pipeline for a text that
\* names a PDF and risk_only for one that does not, a remote worker sends its
\* nominal payload, the local executors succeed (the document
\* reader finds the file, the credit bureau mock answers 760), and the
\* summarizer and the report renderer do their work.
UniformProbes == {[u \in base_urls |-> o] : o \in {"card", "timeout"}}

NominalSlots == {ExtractedFields, RiskAnalysisLow, ComplianceApproved}

\* the reply texts of the three workers as their executors shape them
NominalTexts ==
  { JsonText("doc_results", [results |-> <<ExtractedFields>>]),
    JsonText("risk_analysis", [risk_analysis |-> RiskAnalysisLow]),
    JsonText("compliance_analysis", [compliance_analysis |-> ComplianceApproved]) }

\* the step of request r stays within this behaviour of the collaborators
Nominal(r) ==
  /\ outcome'[r].classifier = "answered" =>
       outcome'[r].content = IF state[r].query.pdf # "" THEN full_pipeline ELSE risk_only
  /\ outcome'[r].classifier # "raised"
  /\ outcome'[r].summarizer # "raised"
  /\ outcome'[r].report # "failed"
  /\ \A n \in StageNodes : "error" \notin DOMAIN state'[r][SlotOf[n]]
  /\ calls'[r] # calls[r] =>
       LET call == calls'[r][Len(calls'[r])]
           slot == state'[r][SlotOf[call.stage]]
       IN IF call.via = "local"
            THEN "credit_score" \in DOMAIN slot => slot.credit_score = 760
            ELSE /\ call.kind = "text"
                 /\ call.behaviour.text \in NominalTexts
                 /\ slot \in NominalSlots

\* process_query that keeps the RoutingState of the run on the agent: one
\* state for all requests, overwritten when a request comes in
begin_process_query_one_state(r, query) ==
  /\ pc[r] = "idle"
  /\ \/ /\ graph
        /\ pc' = [pc EXCEPT ![r] = "route_decision"]
        /\ outcome' = [outcome EXCEPT ![r].registry = available_agents]
     \/ /\ ~graph
        /\ pc' = [pc EXCEPT ![r] = "create"]
        /\ UNCHANGED outcome
  /\ events' = [events EXCEPT ![r] = <<"working">>]
  /\ state' = [q \in Requests |-> initial_state(query)]
  /\ UNCHANGED <<available_agents, graph, result, trace, calls, cancel_errors, discovery, lookup>>

\* process_query entered: with the graph built it goes straight to the initial
\* state; without it, it awaits create(), which raises for a missing API key
\* and otherwise awaits discover_agents (the query is kept in the state record
\* that the code builds once create has returned)
begin_process_query(r, query) ==
  /\ pc[r] = "idle"
  /\ \/ /\ graph
        /\ pc' = [pc EXCEPT ![r] = "route_decision"]
        /\ events' = [events EXCEPT ![r] = <<"working">>]
        /\ state' = [state EXCEPT ![r] = initial_state(query)]
        /\ outcome' = [outcome EXCEPT ![r].registry = available_agents]
     \/ /\ ~graph
        /\ pc' = [pc EXCEPT ![r] = "create"]
        /\ events' = [events EXCEPT ![r] = <<"working">>]
        /\ state' = [state EXCEPT ![r] = initial_state(query)]
        /\ UNCHANGED outcome
     \/ /\ ~graph
        /\ pc' = [pc EXCEPT ![r] = "raised"]
        /\ events' = [events EXCEPT ![r] = <<"working", "failed">>]
        /\ UNCHANGED <<state, outcome>>
  /\ UNCHANGED <<available_agents, graph, result, trace, calls, cancel_errors, discovery, lookup>>

\* create() of request r resumes when its discover_agents returns:
\* _discover_agents assigns self.available_agents (line 76),
\* _build_routing_graph assigns self.graph, and process_query goes on
finish_create(r) ==
  /\ pc[r] = "create"
  /\ \E probe \in UniformProbes :
       /\ available_agents' = discover_agents(probe)
       /\ outcome' = [outcome EXCEPT ![r].registry = discover_agents(probe)]
  /\ graph' = TRUE
  /\ pc' = [pc EXCEPT ![r] = "route_decision"]
  /\ UNCHANGED <<state, result, trace, calls, events, cancel_errors, discovery, lookup>>

NextConcurrent ==
  \/ \E r \in Requests, query \in Queries : begin_process_query(r, query)
  \/ \E r \in Requests : finish_create(r)
  \/ \E r \in Requests : make_routing_decision(r) /\ Nominal(r)
  \/ \E r \in Requests : process_document(r) /\ Nominal(r)
  \/ \E r \in Requests : assess_risk(r) /\ Nominal(r)
  \/ \E r \in Requests : check_compliance(r) /\ Nominal(r)
  \/ \E r \in Requests : aggregate_results(r) /\ Nominal(r)
  \/ \E r \in Requests : return_result(r)
  \/ \E r \in Requests : release(r)
  \/ \E r \in Requests : cancel(r)

SpecConcurrent == Init /\ [][NextConcurrent]_vars

\* ------------------------------------------- discover_agents, step by step
\* AgentDiscovery.discover_agents entered with the endpoints behaving as probe
InitDiscovery ==
  /\ available_agents = <<>>
  /\ graph = FALSE
  /\ pc = [r \in Requests |-> "idle"]
  /\ state = [r \in Requests |-> EmptyDict]
  /\ result = [r \in Requests |-> EmptyDict]
  /\ trace = [r \in Requests |-> <<>>]
  /\ calls = [r \in Requests |-> <<>>]
  /\ outcome = [r \in Requests |-> NoOutcome]
  /\ events = [r \in Requests |-> <<>>]
  /\ cancel_errors = 0
  /\ \E probe \in [base_urls -> ProbeOutcomes] : discovery = StartDiscovery(probe)
  /\ lookup = NoLookup

\* the loop body for the next base URL
ProbeEndpoint ==
  /\ discovery.status = "running"
  /\ discovery.url_index <= NumEndpoints
  /\ discovery' = probe_endpoint(discovery)
  /\ UNCHANGED <<available_agents, graph, pc, state, result, trace, calls, outcome, events,
                 cancel_errors, lookup>>

\* the loop is exhausted: the dict is returned
ReturnAgents ==
  /\ discovery.status = "running"
  /\ discovery.url_index > NumEndpoints
  /\ discovery' = return_agents(discovery)
  /\ UNCHANGED <<available_agents, graph, pc, state, result, trace, calls, outcome, events,
                 cancel_errors, lookup>>

NextDiscovery == ProbeEndpoint \/ ReturnAgents

SpecDiscovery == InitDiscovery /\ [][NextDiscovery]_vars

\* ------------------------------------------------- the lookup, call by call
\* Cards other deployments can serve at a configured base URL.
\* a third-party worker that advertises "pdf" only as a skill tag
OcrServiceCard ==
  [name |-> "ocr_service", agent_text |-> {}, skill_text |-> {}, tags |-> {"pdf"}]

\* a compliance worker whose description reads "regulatory compliance and
\* legal risk review"
ComplianceRiskReviewCard ==
  [name |-> "compliance_agent", agent_text |-> {"compliance", "regulatory", "legal", "risk"},
   skill_text |-> {"compliance"}, tags |-> {"compliance", "regulatory"}]

LookupCards ==
  {DocumentAgentCard, CreditRiskAgentCard, ComplianceAgentCard, MortgageHelperCard,
   RoutingAgentCard, OcrServiceCard, ComplianceRiskReviewCard}

\* number of agents in the registry of a lookup
MaxRegistry == 2

\* the values self.available_agents can take: cards keyed by name, in
\* insertion order
Registries ==
  UNION {{agents \in [1..n -> LookupCards] :
            \A i, j \in 1..n : agents[i].name = agents[j].name => i = j} :
         n \in 0..MaxRegistry}

\* the keyword lists the stage handlers pass
KeywordLists == {DocumentKeywords, RiskKeywords, ComplianceKeywords}

InitLookup ==
  /\ available_agents \in Registries
  /\ graph = FALSE
  /\ pc = [r \in Requests |-> "idle"]
  /\ state = [r \in Requests |-> EmptyDict]
  /\ result = [r \in Requests |-> EmptyDict]
  /\ trace = [r \in Requests |-> <<>>]
  /\ calls = [r \in Requests |-> <<>>]
  /\ outcome = [r \in Requests |-> NoOutcome]
  /\ events = [r \in Requests |-> <<>>]
  /\ cancel_errors = 0
  /\ discovery = NoDiscovery
  /\ \E skill_keywords \in KeywordLists :
       lookup = [skill_keywords |-> skill_keywords, found |-> NoCard, status |-> "called"]

\* self._get_agent_by_skill(skill_keywords) returns
FindAgent ==
  /\ lookup.status = "called"
  /\ lookup' = [lookup EXCEPT
                  !.found = get_agent_by_skill(available_agents, lookup.skill_keywords),
                  !.status = "returned"]
  /\ UNCHANGED <<available_agents, graph, pc, state, result, trace, calls, outcome, events,
                 cancel_errors, discovery>>

NextLookup == FindAgent

SpecLookup == InitLookup /\ [][NextLookup]_vars

\* ================================================================= claims
Finished(r) == pc[r] \in {"END", "returned"}

\* the stage nodes a run executed
StagesRun(r) == {n \in StageNodes : \E i \in 1..Len(trace[r]) : trace[r][i] = n}

ResultFields ==
  {"routing_decision", "document_data", "risk_assessment", "compliance_result",
   "processing_summary"}

\* C1: whatever the route label and whatever the workers, the classifier, the
\* summarizer and the report renderer do, process_query ends by returning a
\* record that contains processing_summary (it never raises).
C1_AlwaysProcessingSummary ==
  \A r \in Requests :
    pc[r] = "returned" => "processing_summary" \in DOMAIN result[r]

\* C2: the nodes a run executes after route_decision are exactly the suffix of
\* document_processing, risk_assessment, compliance_check, final_aggregation
\* that starts at the route label's entry point, each once and in this order;
\* the run is over exactly when final_aggregation has run.
StagesFrom(route_decision) ==
  IF route_decision = risk_only
    THEN <<"risk_assessment", "compliance_check", "final_aggregation">>
  ELSE IF route_decision = compliance_only
    THEN <<"compliance_check", "final_aggregation">>
  ELSE <<"document_processing", "risk_assessment", "compliance_check", "final_aggregation">>

IsPrefix(s, t) == Len(s) <= Len(t) /\ SubSeq(t, 1, Len(s)) = s

C2_StageSequence ==
  \A r \in Requests :
    outcome[r].classifier = "answered" =>
      LET expected == <<"route_decision">> \o StagesFrom(state[r].route_decision)
      IN /\ IsPrefix(trace[r], expected)
         /\ Finished(r) <=> trace[r] = expected
         /\ ~Finished(r) => pc[r] = expected[Len(trace[r]) + 1]

C2_Witness ==
  \E r \in Requests :
    /\ pc[r] = "returned"
    /\ state[r].route_decision = risk_only
    /\ trace[r] = <<"route_decision", "risk_assessment", "compliance_check", "final_aggregation">>

\* C3: a stage handler always returns: whatever fails inside it, the step it
\* takes stores its slot, logs its message and moves to the fixed successor
\* node, also when the slot written (or a slot written before) holds an error.
StageStep(r) == process_document(r) \/ assess_risk(r) \/ check_compliance(r)

C3_StageFailureNeverHalts ==
  /\ [](\A r \in Requests : pc[r] \in StageNodes => ENABLED StageStep(r))
  /\ [][\A r \in Requests :
       (pc[r] \in StageNodes /\ pc'[r] # pc[r]) =>
          /\ pc'[r] = SuccessorOf[pc[r]]
          /\ trace'[r] = Append(trace[r], pc[r])
          /\ Len(state'[r].messages) = Len(state[r].messages) + 1
          /\ IsDict(state'[r][SlotOf[pc[r]]]) \/ IsStr(state'[r][SlotOf[pc[r]]])]_vars

C3_Witness ==
  \E r \in Requests :
    /\ pc[r] = "returned"
    /\ StagesRun(r) = StageNodes
    /\ "error" \in DOMAIN state[r].document_data
    /\ "error" \in DOMAIN state[r].risk_assessment
    /\ "error" \in DOMAIN state[r].compliance_result

\* C4: in every final_result built by the aggregation, total_steps is the
\* number of stage slots the run populated (3, 2 or 1 by route) and
\* successful_steps the number of those without an error key; slots of stages
\* that did not run and final_result itself are not counted.
C4_SummaryCountsStagesRun ==
  \A r \in Requests :
    (pc[r] = "returned" /\ "processing_summary" \in DOMAIN result[r]) =>
       /\ result[r].processing_summary.total_steps = Cardinality(StagesRun(r))
       /\ result[r].processing_summary.successful_steps =
            Cardinality({n \in StagesRun(r) : ~Contains(state[r][SlotOf[n]], "error")})

\* C5: a classifier answer that is not one of the four labels is replaced by
\* full_pipeline: once the classifier has answered, route_decision is one of
\* the four labels, and an answer outside them neither aborts the run nor
\* reaches the caller as the workflow-failed record.
C5_RouteDefaultsToFullPipeline ==
  \A r \in Requests :
    outcome[r].classifier = "answered" =>
      /\ state[r].route_decision \in valid_routes
      /\ StrLower(StrStrip(outcome[r].content)) \notin valid_routes =>
           /\ state[r].route_decision = full_pipeline
           /\ pc[r] # "raised"
           /\ result[r] # WorkflowFailed

C5_Witness ==
  \E r \in Requests :
    /\ pc[r] = "returned"
    /\ outcome[r].classifier = "answered"
    /\ outcome[r].content # <<>>
    /\ StrLower(StrStrip(outcome[r].content)) \notin valid_routes
    /\ state[r].route_decision = full_pipeline
    /\ "processing_summary" \in DOMAIN result[r]

\* the calls of a run that went to a remote worker and ended as described
TransportFailures(r) ==
  {i \in 1..Len(calls[r]) :
     calls[r][i].via = "remote" /\ calls[r][i].kind \in {"timeout", "connect_error"}}

NotJsonReplies(r) ==
  {i \in 1..Len(calls[r]) :
     calls[r][i].via = "remote" /\ calls[r][i].kind = "text" /\ ~calls[r][i].valid}

CallsOfStage(r, stage) == {i \in 1..Len(calls[r]) : calls[r][i].stage = stage}

\* C6: when a stage's remote call times out or fails in transport, the stage's
\* slot holds an error key, the call was made once, and the run reaches the
\* aggregation, whose final_result carries that error-bearing slot.
C6_TimeoutRecordedAndAggregated ==
  \A r \in Requests :
    \A i \in TransportFailures(r) :
      LET slot == SlotOf[calls[r][i].stage]
      IN /\ "error" \in DOMAIN state[r][slot]
         /\ Cardinality(CallsOfStage(r, calls[r][i].stage)) = 1
         /\ Finished(r) =>
              /\ slot \in DOMAIN state[r].final_result
              /\ state[r].final_result[slot] = state[r][slot]

\* C7: for each of the three stages, a remote reply whose text json.loads
\* rejects leaves a slot with raw_response (that text) and processing_note and
\* no error key, and the run goes on to the following node.
C7_NonJsonReplyIsRawFallback ==
  \A r \in Requests :
    \A i \in NotJsonReplies(r) :
      LET slot == state[r][SlotOf[calls[r][i].stage]]
      IN /\ {"raw_response", "processing_note"} \subseteq DOMAIN slot
         /\ "error" \notin DOMAIN slot
         /\ slot.raw_response = NotJsonText
         /\ pc[r] \in {"risk_assessment", "compliance_check", "final_aggregation",
                       "END", "returned"}
         /\ calls[r][i].stage \in StagesRun(r)
         /\ result[r] # WorkflowFailed

C7_Witness ==
  \E r \in Requests :
    /\ pc[r] = "returned"
    /\ {calls[r][i].stage : i \in NotJsonReplies(r)} = StageNodes
    /\ "raw_response" \in DOMAIN state[r].document_data
    /\ "raw_response" \in DOMAIN state[r].risk_assessment
    /\ "raw_response" \in DOMAIN state[r].compliance_result

\* C8: a failure of the summarization collaborator is not fatal: the record
\* returned still has routing_decision, the three stage slots and
\* processing_summary; only summary is missing.
C8_SummaryFailureKeepsResult ==
  \A r \in Requests :
    (pc[r] = "returned" /\ outcome[r].summarizer = "raised") =>
       /\ ResultFields \subseteq DOMAIN result[r]
       /\ result[r].document_data = state[r].document_data
       /\ result[r].risk_assessment = state[r].risk_assessment
       /\ result[r].compliance_result = state[r].compliance_result

\* C9: a failure of report rendering is not fatal: the record returned has
\* routing_decision, the three stage slots as the stages left them,
\* processing_summary and summary, and no output_pdf_path.
C9_ReportFailureKeepsResult ==
  \A r \in Requests :
    (pc[r] = "returned" /\ outcome[r].report = "failed") =>
       /\ DOMAIN result[r] = ResultFields \cup {"summary"}
       /\ result[r].routing_decision = state[r].route_decision
       /\ result[r].document_data = state[r].document_data
       /\ result[r].risk_assessment = state[r].risk_assessment
       /\ result[r].compliance_result = state[r].compliance_result
       /\ result[r].processing_summary.agent = "RoutingAgent"

C9_Witness ==
  \E r \in Requests :
    /\ pc[r] = "returned"
    /\ outcome[r].report = "failed"
    /\ IsDict(state[r].document_data)
    /\ "summary" \in DOMAIN result[r]

\* C10: with no endpoint reachable the registry is empty, every stage that
\* runs uses the local executor and no remote request is sent, and
\* process_query still returns a record with routing_decision, the three
\* stage slots and processing_summary.
C10_EmptyRegistryStillWellFormed ==
  \A r \in Requests :
    (available_agents = <<>> /\ pc[r] \notin {"idle", "route_decision"}) =>
       /\ \A i \in 1..Len(calls[r]) : calls[r][i].via = "local"
       /\ pc[r] = "returned" =>
            /\ result[r] # EmptyDict
            /\ ResultFields \subseteq DOMAIN result[r]

\* ---------------------------------------------------------------- C11
\* C11: discover_agents never fails: for every combination of probe outcomes
\* (card, connection error, timeout, malformed descriptor), all failing
\* included, no exception leaves it, every base URL is probed in order whatever
\* the earlier probes did, and the mapping returned holds, under distinct
\* names, the cards of endpoints whose probe succeeded and nothing else.
C11_DiscoverNeverFails ==
  /\ discovery.status \in {"running", "returned"}
  /\ discovery.probed = [i \in 1..(discovery.url_index - 1) |-> i]
  /\ \A i \in 1..Len(discovery.agents) :
       \E u \in 1..(discovery.url_index - 1) :
          discovery.probe[u] = "card" /\ discovery.agents[i] = EndpointCards[u]
  /\ \A i, j \in 1..Len(discovery.agents) :
       discovery.agents[i].name = discovery.agents[j].name => i = j
  /\ discovery.status = "returned" =>
       /\ discovery.url_index = NumEndpoints + 1
       /\ discovery.agents = discover_agents(discovery.probe)

\* a call in which a failed probe is followed by a successful one, returned
C11_Witness ==
  /\ discovery.status = "returned"
  /\ discovery.probe[1] = "timeout"
  /\ discovery.probe[2] = "card"
  /\ discovery.probe[NumEndpoints] = "malformed"
  /\ Len(discovery.agents) >= 1
  /\ Len(discovery.probed) = NumEndpoints

\* the route label of a run whose classifier answered
RouteOf(r) == state[r].route_decision

Routed(r) == outcome[r].classifier = "answered"

\* C12: on a route that skips upstream stages their slots are never written:
\* with compliance_only document_data and risk_assessment are {} in the state
\* and in final_result, with risk_only document_data is {} in both, whatever
\* the stages that ran did.
C12_UpstreamSlotsUntouched ==
  \A r \in Requests :
    Routed(r) =>
      LET skipped == IF RouteOf(r) = compliance_only THEN {"document_data", "risk_assessment"}
                     ELSE IF RouteOf(r) = risk_only THEN {"document_data"}
                     ELSE {}
      IN \A slot \in skipped :
           /\ state[r][slot] = EmptyDict
           /\ Finished(r) =>
                /\ slot \in DOMAIN state[r].final_result
                /\ state[r].final_result[slot] = EmptyDict

\* C13: with route compliance_only the compliance worker's input, remote or
\* local, is made of the task text: it carries the text and nothing out of the
\* (empty) document_data and risk_assessment slots.
C13_ComplianceOnlyInputIsTaskText ==
  \A r \in Requests :
    (Routed(r) /\ RouteOf(r) = compliance_only) =>
      \A i \in CallsOfStage(r, "compliance_check") :
        IF calls[r][i].via = "local"
          THEN calls[r][i].input.content = state[r].query
          ELSE /\ calls[r][i].input.data.query = state[r].query
               /\ calls[r][i].input.data.document_data = EmptyDict
               /\ calls[r][i].input.data.risk_assessment = EmptyDict

\* the input of the compliance call is built from the risk_assessment slot
ComplianceConsumesRisk(r, i) ==
  IF calls[r][i].via = "local"
    THEN calls[r][i].input.content = state[r].risk_assessment
    ELSE calls[r][i].input.data.risk_assessment = state[r].risk_assessment

\* the input of the risk call is built from the document_data slot
RiskConsumesDocument(r, i) ==
  IF calls[r][i].via = "local"
    THEN calls[r][i].input.doc_data = state[r].document_data
    ELSE /\ "data" \in DOMAIN calls[r][i].input
         /\ calls[r][i].input.data = state[r].document_data

C15_RiskOnlyExample ==
  \A r \in Requests :
    ( /\ Routed(r) /\ RouteOf(r) = risk_only
      /\ state[r].query = QueryRiskText
      /\ Finished(r)
      /\ Len(calls[r]) = 2
      /\ \A i \in 1..Len(calls[r]) : calls[r][i].via = "local" ) =>
        /\ state[r].risk_assessment.debt_to_income_ratio = 0
        /\ state[r].risk_assessment.risk_level = "low"
        /\ state[r].compliance_result.approved = TRUE

\* C16: cancel is rejected as an unsupported operation in every task state:
\* it can always be called and then raises the error, it puts no status on
\* the event queue, and it leaves every run, in progress or over, as it was.
C16_CancelAlwaysRejected ==
  /\ [](cancel_errors < MaxCancels => \A r \in Requests : ENABLED cancel(r))
  /\ [][cancel_errors' # cancel_errors =>
         /\ cancel_errors' = cancel_errors + 1
         /\ UNCHANGED <<available_agents, graph, pc, state, result, trace, calls, outcome,
                        events>>]_vars

\* every cancellation was rejected, one run completed and another is in progress
C16_Witness ==
  /\ cancel_errors = MaxCancels
  /\ \E r \in Requests :
       /\ pc[r] = "returned"
       /\ events[r] = <<"working", "completed">>
       /\ "processing_summary" \in DOMAIN result[r]
  /\ \E r \in Requests : pc[r] \in StageNodes /\ events[r] = <<"working">>

\* the keyword list each stage resolves its worker with
KeywordsOf ==
  [document_processing |-> DocumentKeywords, risk_assessment |-> RiskKeywords,
   compliance_check |-> ComplianceKeywords]

\* call i of request r went where the registry the request started with says
ResolvedInSnapshot(r, i) ==
  LET card == get_agent_by_skill(outcome[r].registry, KeywordsOf[calls[r][i].stage])
  IN IF card = NoCard
       THEN calls[r][i].via = "local"
       ELSE calls[r][i].via = "remote" /\ calls[r][i].agent = card.name

\* C17: a request in flight uses one registry snapshot: once a stage of the
\* request has resolved its worker against the registry the request started
\* with, every later stage of the request does so too, also when a discovery
\* begun after the request replaces available_agents between the two stages.
C17_OneRegistrySnapshot ==
  \A r \in Requests :
    \A i \in 2..Len(calls[r]) :
      ResolvedInSnapshot(r, 1) => ResolvedInSnapshot(r, i)

\* C18: with route risk_only the risk worker's input is built from the task
\* text, not from the empty document_data slot: the remote request carries
\* the text, the local executor is given the text.
C18_RiskOnlyInputIsTaskText ==
  \A r \in Requests :
    (Routed(r) /\ RouteOf(r) = risk_only) =>
      \A i \in CallsOfStage(r, "risk_assessment") :
        IF calls[r][i].via = "local"
          THEN calls[r][i].input.doc_data = state[r].query
          ELSE calls[r][i].input = risk_request_from_query(state[r])

\* C19: send_task never raises to the calling stage: a refused connection, a
\* timeout and a reply without the nested text path all come back as a value.
C19_SendTaskNeverRaises ==
  \A r \in Requests :
    \A i \in 1..Len(calls[r]) :
      calls[r][i].via = "remote" =>
        ~send_task([kind |-> calls[r][i].kind, text |-> NotJsonText]).raised

\* the calls of a run answered by an envelope without
\* result.status.message.parts[0].text
MalformedEnvelopes(r) ==
  {i \in 1..Len(calls[r]) : calls[r][i].via = "remote" /\ calls[r][i].kind = "no_text_path"}

\* C20: a reply whose envelope lacks the nested text path gives a structured
\* error: the stage's slot has an error key and is neither a raw-text fallback
\* nor a successful result.
C20_MalformedEnvelopeIsError ==
  \A r \in Requests :
    \A i \in MalformedEnvelopes(r) :
      LET slot == state[r][SlotOf[calls[r][i].stage]]
      IN /\ "error" \in DOMAIN slot
         /\ "raw_response" \notin DOMAIN slot
         /\ "processing_note" \notin DOMAIN slot

\* the three shapes a slot written after a remote call is said to have
StructuredError(slot) ==
  Contains(slot, "error") /\ ~Contains(slot, "raw_response")

RawTextFallback(slot) ==
  /\ Contains(slot, "raw_response") /\ Contains(slot, "processing_note")
  /\ ~Contains(slot, "error")

ParsedPayload(slot) ==
  /\ ~Contains(slot, "error")
  /\ ~Contains(slot, "raw_response") /\ ~Contains(slot, "processing_note")

RemoteCalls(r) == {i \in 1..Len(calls[r]) : calls[r][i].via = "remote"}

\* C21: after every remote stage call the stage's slot is exactly one of a
\* structured error (error key, no raw_response), a raw-text fallback
\* (raw_response and processing_note, no error key) and a parsed payload
\* (none of the three keys), whatever the worker replied.
C21_SlotIsOneVariant ==
  \A r \in Requests :
    \A i \in RemoteCalls(r) :
      LET slot == state[r][SlotOf[calls[r][i].stage]]
      IN Cardinality({v \in {"error", "raw", "parsed"} :
                        \/ v = "error" /\ StructuredError(slot)
                        \/ v = "raw" /\ RawTextFallback(slot)
                        \/ v = "parsed" /\ ParsedPayload(slot)}) = 1

\* the cards whose name, description or skill tags hold a keyword
TagHits(agents, skill_keywords) ==
  {i \in 1..Len(agents) :
     \E j \in 1..Len(skill_keywords) :
        skill_keywords[j] \in (agents[i].agent_text \cup agents[i].tags)}

\* C22: the lookup returns the descriptor of the first keyword whose canonical
\* name is registered; only when there is none, the first descriptor in
\* registry order whose name, description or skill tags contain a keyword;
\* otherwise no match; and whatever it returns is in the registry.
C22_TableThenNameDescriptionTags ==
  lookup.status = "returned" =>
    LET agents == available_agents
        skill_keywords == lookup.skill_keywords
        canonical == {i \in 1..Len(skill_keywords) :
                        HasAgent(agents, agent_mapping[skill_keywords[i]])}
        tagged == TagHits(agents, skill_keywords)
    IN /\ canonical # {} =>
            lookup.found.name = agent_mapping[skill_keywords[Min(canonical)]]
       /\ canonical = {} /\ tagged # {} => lookup.found = agents[Min(tagged)]
       /\ canonical = {} /\ tagged = {} => lookup.found = NoCard
       /\ lookup.found # NoCard => \E i \in 1..Len(agents) : agents[i] = lookup.found

\* C23: the probes of all endpoints run concurrently: no probe begins (or
\* ends) later because the probe of another endpoint fails or hangs until its
\* timeout, so every probe begins before any timeout has been waited for.
C23_ProbesNotDelayed ==
  \A i \in 1..Len(discovery.probed) : discovery.started[i] = 0

MessageIdOf(r, i) == calls[r][i].request.params.message.messageId

\* C24: there are no retries: a stage that resolved a remote worker sent
\* exactly one request, a failed or timed-out request included, and the
\* message identifiers of the requests sent are pairwise different.
C24_OneRequestPerStageFreshIds ==
  /\ \A r \in Requests :
       /\ \A n \in StagesRun(r) :
            get_agent_by_skill(outcome[r].registry, KeywordsOf[n]) # NoCard =>
              Cardinality({i \in RemoteCalls(r) : calls[r][i].stage = n}) = 1
       /\ \A i \in RemoteCalls(r) : Cardinality(CallsOfStage(r, calls[r][i].stage)) = 1
  /\ \A r1, r2 \in Requests :
       \A i \in RemoteCalls(r1) :
         \A j \in RemoteCalls(r2) :
           MessageIdOf(r1, i) = MessageIdOf(r2, j) => r1 = r2 /\ i = j

\* a finished run with three remote calls, the first of which timed out
C24_Witness ==
  \E r \in Requests :
    /\ Finished(r)
    /\ Cardinality(RemoteCalls(r)) = 3
    /\ calls[r][1].kind = "timeout"
    /\ calls[r][2].kind = "text"

\* the envelope of call i of request r holds the session_id the stage passed:
\* as the request id, as the message id, or under any other key of the params
\* or of the message
CarriesSessionId(r, i) ==
  LET session_id == calls[r][i].session_id
      request == calls[r][i].request
      message == request.params.message
  IN \/ request.id = session_id
     \/ message.messageId = session_id
     \/ \E k \in DOMAIN message \ {"role", "parts", "messageId"} : message[k] = session_id
     \/ \E k \in DOMAIN request.params \ {"message"} : request.params[k] = session_id

\* C25: every request send_task sends carries the session_id its caller
\* passed, in the envelope or in the request.
C25_SessionIdIsSent ==
  \A r \in Requests : \A i \in RemoteCalls(r) : CarriesSessionId(r, i)

\* ------------------------------------------------ two runs side by side
\* Request 1 is classified document_only and runs to its end with any worker
\* and collaborator behaviour; request 2 then gets the same task text on the
\* same registry, is classified full_pipeline, and at every stage request 1
\* also ran meets the behaviour request 1 met there.
UniformRegistries == {discover_agents(probe) : probe \in UniformProbes}

Replays ==
  LET n == pc[2]
      first == CallsOfStage(1, n)
  IN /\ (n \in StageNodes /\ n \in StagesRun(1)) =>
          /\ (calls'[2] = calls[2]) <=> (first = {})
          /\ first # {} =>
               calls'[2][Len(calls'[2])].behaviour =
                 calls[1][CHOOSE i \in first : TRUE].behaviour
          /\ first = {} =>
               ("error" \in DOMAIN state'[2][SlotOf[n]]) <=>
                 ("error" \in DOMAIN state[1][SlotOf[n]])
     /\ (n = "final_aggregation"
         /\ \E i \in 1..Len(trace[1]) : trace[1][i] = "final_aggregation") =>
          /\ outcome'[2].summarizer = outcome[1].summarizer
          /\ outcome'[2].report = outcome[1].report

NextTwin ==
  \/ create /\ available_agents' \in UniformRegistries
  \/ \E query \in Queries : graph /\ process_query(1, query)
  \/ make_routing_decision(1) /\ outcome'[1].content = document_only
  \/ process_document(1)
  \/ assess_risk(1)
  \/ check_compliance(1)
  \/ aggregate_results(1)
  \/ return_result(1)
  \/ pc[1] = "returned" /\ begin_process_query(2, state[1].query)
  \/ make_routing_decision(2) /\ outcome'[2].content = full_pipeline
  \/ process_document(2) /\ Replays
  \/ assess_risk(2) /\ Replays
  \/ check_compliance(2) /\ Replays
  \/ aggregate_results(2) /\ Replays
  \/ return_result(2)

SpecTwin == Init /\ [][NextTwin]_vars

\* C26: a run classified document_only and a run classified full_pipeline on
\* the same task text, registry and worker and collaborator behaviours execute
\* the same stages in the same order, give every worker the same input, and
\* write the same three slots; what they return differs in the route label
\* only.
C26_DocumentOnlyLikeFullPipeline ==
  (pc[1] = "returned" /\ Routed(1) /\ Routed(2)) =>
    /\ RouteOf(1) = document_only /\ RouteOf(2) = full_pipeline
    /\ \A i \in 1..Len(trace[2]) : i <= Len(trace[1]) /\ trace[2][i] = trace[1][i]
    /\ \A i \in 1..Len(calls[2]) :
         /\ i <= Len(calls[1])
         /\ calls[2][i].stage = calls[1][i].stage
         /\ calls[2][i].via = calls[1][i].via
         /\ calls[2][i].agent = calls[1][i].agent
         /\ calls[2][i].input = calls[1][i].input
    /\ \A n \in StagesRun(2) \cap StageNodes : state[2][SlotOf[n]] = state[1][SlotOf[n]]
    /\ pc[2] = "returned" =>
         /\ trace[2] = trace[1]
         /\ Len(calls[2]) = Len(calls[1])
         /\ DOMAIN result[2] = DOMAIN result[1]
         /\ \A k \in DOMAIN result[1] \ {"routing_decision"} : result[2][k] = result[1][k]
         /\ "routing_decision" \in DOMAIN result[1] =>
              /\ result[1].routing_decision = document_only
              /\ result[2].routing_decision = full_pipeline

\* both runs are over, went through all four nodes with remote workers, and
\* the document worker's reply was not JSON
C26_Witness ==
  /\ pc[1] = "returned" /\ pc[2] = "returned"
  /\ RouteOf(1) = document_only /\ RouteOf(2) = full_pipeline
  /\ Len(trace[2]) = 5
  /\ Cardinality(RemoteCalls(2)) = 3
  /\ "raw_response" \in DOMAIN state[2].document_data
  /\ result[2].routing_decision = full_pipeline

\* the inputs a stage of request r can hand to its worker, read from the
\* request's own state
OwnInputs(r) ==
  { [request |-> "Extract and analyze data from the mortgage application PDF. Query",
     query |-> state[r].query],
    [filename |-> state[r].query.pdf],
    risk_request(state[r]),
    [doc_data |-> risk_local_input(state[r])],
    compliance_request(state[r]),
    [content |-> compliance_local_input(state[r])] }

\* C27: requests in flight together share no pipeline state: process_query
\* starts each one on a fresh state with empty slots and an empty message log,
\* a step of one request writes no slot, message log, trace, call or result of
\* another, and the input a stage sends is read from its own request's state.
C27_RequestsShareNoState ==
  [][\A r \in Requests :
       pc'[r] # pc[r] =>
         /\ \A q \in Requests \ {r} :
              /\ state'[q] = state[q]
              /\ result'[q] = result[q]
              /\ trace'[q] = trace[q]
              /\ calls'[q] = calls[q]
         /\ (pc[r] = "idle" /\ pc'[r] \in {"create", "route_decision"}) =>
              /\ \E query \in Queries : state'[r] = initial_state(query)
              /\ state'[r].messages = <<>>
              /\ state'[r].document_data = EmptyDict
         /\ (pc[r] \in StageNodes /\ calls'[r] # calls[r]) =>
              calls'[r][Len(calls'[r])].input \in OwnInputs(r)]_vars

\* two requests with different task texts are both between two stages, each
\* with a worker call made and a slot written
C27_Witness ==
  /\ pc[1] \in StageNodes /\ pc[2] \in StageNodes
  /\ state[1].query # state[2].query
  /\ Len(calls[1]) >= 1 /\ Len(calls[2]) >= 1
  /\ Len(state[1].messages) >= 2 /\ Len(state[2].messages) >= 2

\* C28: compliance_result.approved is true only when an analysis produced it:
\* after a compliance worker's reply that is not JSON, or whose envelope lacks
\* the nested text path, the slot does not say approved.
C28_ApprovedOnlyFromAnalysis ==
  \A r \in Requests :
    \A i \in (NotJsonReplies(r) \cup MalformedEnvelopes(r)) \cap
               CallsOfStage(r, "compliance_check") :
      "approved" \in DOMAIN state[r].compliance_result =>
        ~state[r].compliance_result.approved

CanonicalWorkers == {"document_agent", "credit_risk_agent", "compliance_agent"}

\* C29: whatever the registry holds, the lookup called with one stage's
\* keyword list never returns a descriptor registered under the canonical
\* worker name of another stage.
C29_NeverAnotherStagesWorker ==
  lookup.status = "returned" =>
    lookup.found.name \notin
      CanonicalWorkers \ {agent_mapping[lookup.skill_keywords[1]]}

\* C30: execute reports working first and then exactly one terminal status:
\* completed when process_query returned, an error record included, failed
\* when an exception left process_query; never both.
C30_WorkingThenOneTerminalStatus ==
  \A r \in Requests :
    /\ pc[r] = "idle" => events[r] = <<>>
    /\ pc[r] = "returned" => events[r] = <<"working", "completed">>
    /\ pc[r] = "raised" => events[r] = <<"working", "failed">>
    /\ pc[r] \notin {"idle", "returned", "raised"} => events[r] = <<"working">>

\* process_query returned an error record and the task was reported completed
C30_Witness ==
  \E r \in Requests :
    /\ pc[r] = "returned"
    /\ "error" \in DOMAIN result[r]
    /\ Len(trace[r]) > 1
    /\ events[r] = <<"working", "completed">>

Next ==
  \/ create
  \/ \E r \in Requests, query \in Queries : process_query(r, query)
  \/ \E r \in Requests : make_routing_decision(r)
  \/ \E r \in Requests : process_document(r)
  \/ \E r \in Requests : assess_risk(r)
  \/ \E r \in Requests : check_compliance(r)
  \/ \E r \in Requests : aggregate_results(r)
  \/ \E r \in Requests : return_result(r)
  \/ \E r \in Requests : release(r)

Spec == Init /\ [][Next]_vars

====
